---- MODULE Spec2Model ----
(***************************************************************************)
(* Model of cargo-liquid's build command (src/cmd/build.rs):               *)
(* execute_build runs collect_crate_metadata, build_cargo_project,         *)
(* post_process_wasm and optimize_wasm in sequence over a small file       *)
(* system.  Each function is split at the calls that can return early.     *)
(***************************************************************************)
EXTENDS Naturals, Sequences, FiniteSets

\* ------------------------------------------------------------------ bounds

\* Largest number of sections of a module.
MaxSections == 2

\* ------------------------------------------------------------ module model

\* parity_wasm::elements::Section variants (kind), with a payload that tells
\* two sections of one kind apart.
MetaKinds == {"Custom", "Name", "Reloc"}

SemanticKinds ==
    {"Type", "Import", "Function", "Table", "Memory", "Global", "Export",
     "Start", "Element", "Code", "Data"}

Kinds == SemanticKinds \cup MetaKinds

Payloads == {"p", "q"}

Sections == [kind : Kinds, payload : Payloads]

SeqsUpTo(S, n) == UNION {[1..k -> S] : k \in 0..n}

Modules == SeqsUpTo(Sections, MaxSections)

\* The modules the pipeline is run on: fewer kinds, one payload.
PipelineKinds == {"Export", "Code", "Name"}

PipelineModules ==
    SeqsUpTo([kind : PipelineKinds, payload : {"p"}], MaxSections)

\* The closure given to retain: false for Custom, Name and Reloc.
KeepMissingReloc(section) ==
    CASE section.kind = "Custom" -> FALSE
      [] section.kind = "Name" -> FALSE
      [] OTHER -> TRUE

Keep(section) ==
    CASE section.kind = "Custom" -> FALSE
      [] section.kind = "Name" -> FALSE
      [] section.kind = "Reloc" -> FALSE
      [] OTHER -> TRUE

\* Vec::retain: the elements the closure accepts, in their order.
strip_custom_sections(m) == SelectSeq(m, Keep)

\* ------------------------------------------------------------------- paths

\* A path is a sequence of components, a component a sequence of tokens.
PackageNames == {<<"a">>, <<"a", "-", "b">>}

target_directory == << <<"target">> >>

\* str::replace("-", "_")
Normalize(name) ==
    [i \in 1..Len(name) |-> IF name[i] = "-" THEN "_" ELSE name[i]]

Push(path, comp) == Append(path, comp)

LastDot(comp) ==
    LET dots == {i \in 2..Len(comp) : comp[i] = "."}
    IN  IF dots = {} THEN 0 ELSE CHOOSE i \in dots : \A j \in dots : j <= i

\* PathBuf::set_extension: the last component's extension is replaced.
SetExtension(path, ext) ==
    LET n == Len(path)
        comp == path[n]
        d == LastDot(comp)
        stem == IF d = 0 THEN comp ELSE SubSeq(comp, 1, d - 1)
    IN  [path EXCEPT ![n] = stem \o <<".", ext>>]

\* PathBuf::set_file_name: the last component is replaced.
SetFileName(path, name) == [path EXCEPT ![Len(path)] = name]

OptSuffix == <<"-", "opt", ".", "wasm">>

\* collect_crate_metadata, given the root package cargo metadata reported.
collect_crate_metadata(root_name) ==
    LET package_name == Normalize(root_name)
    IN  [package_name |-> package_name,
         original_wasm |->
            SetExtension(
                Push(Push(Push(target_directory, <<"wasm32-unknown-unknown">>),
                          <<"release">>),
                     package_name),
                "wasm"),
         dest_wasm |->
            SetExtension(Push(target_directory, package_name), "wasm")]

\* optimize_wasm's output path: dest_wasm with the file name replaced.
OptimizedSameAsDest(cm) == cm.dest_wasm

OptimizedPath(cm) == SetFileName(cm.dest_wasm, cm.package_name \o OptSuffix)

NoMetadata ==
    [package_name |-> <<>>, original_wasm |-> <<>>, dest_wasm |-> <<>>]

Paths ==
    UNION {LET cm == collect_crate_metadata(n)
           IN  {cm.original_wasm, cm.dest_wasm, OptimizedPath(cm)}
           : n \in PackageNames}

\* ------------------------------------------------------------ file contents

Absent == [tag |-> "absent"]

Stale == [tag |-> "stale"]

Garbage == [tag |-> "garbage"]

Partial == [tag |-> "partial"]

\* parity_wasm::serialize_to_file: the file holding module m.
Wasm(m) == [tag |-> "wasm", sections |-> m]

\* What wasm-opt writes for an input file c.
WasmOptOutput(c) == [tag |-> "wasm-opt", input |-> c]

\* ---------------------------------------------------------------- manifest

Malformed == [tag |-> "malformed"]

Toml(types, lto) == [tag |-> "toml", crate_types |-> types, lto |-> lto]

ManifestContents ==
    {Malformed} \cup
    {Toml(t, l) : t \in {{"cdylib"}, {"cdylib", "rlib"}}, l \in BOOLEAN}

NoManifest == [tag |-> "absent"]

Err(m) == [ok |-> FALSE, manifest |-> m]

Ok(m) == [ok |-> TRUE, manifest |-> m]

\* Manifest::with_removed_crate_type
with_removed_crate_type(m, t) ==
    IF m.tag # "toml" THEN Err(m)
    ELSE Ok([m EXCEPT !.crate_types = @ \ {t}])

\* Manifest::with_profile_release_lto
with_profile_release_lto(m, enabled) ==
    IF m.tag # "toml" THEN Err(m)
    ELSE Ok([m EXCEPT !.lto = enabled])

\* The closure given to with_root_package_manifest: both edits, each with ?.
EditRootManifestSwallow(m) ==
    LET a == with_removed_crate_type(m, "rlib")
        b == with_profile_release_lto(a.manifest, TRUE)
    IN  Ok(b.manifest)

EditRootManifest(m) ==
    LET a == with_removed_crate_type(m, "rlib")
    IN  IF ~a.ok THEN a ELSE with_profile_release_lto(a.manifest, TRUE)

\* The manifest xbuild builds: the path using_temp hands to the closure.
xbuildManifest(given, real) == given

\* Workspace::using_temp, entering: the edited manifest is written to a
\* temporary copy; the manifest itself is left as it is.
using_temp_enter(ms, edited) == [ms EXCEPT !.temp = edited]

\* using_temp leaving the edited manifest in place of the original.
using_temp_exit_keeping_edits(ms, original, cleanupOk) ==
    [real |-> ms.temp, temp |-> IF cleanupOk THEN NoManifest ELSE ms.temp]

\* Workspace::using_temp, leaving: the original is restored and the
\* temporary copy removed (kept when the cleanup fails).
using_temp_exit(ms, original, cleanupOk) ==
    [real |-> original, temp |-> IF cleanupOk THEN NoManifest ELSE ms.temp]

\* ---------------------------------------------------------------- pipeline

StageOrder == <<"ResolveMetadata", "Build", "Transform", "ExternalOptimize">>

\* execute_build: each stage's result goes through ?, the next stage runs
\* only after an Ok.
StageAfterIgnoringErrors(stage, ok) ==
    CASE stage = "ResolveMetadata" -> "Build"
      [] stage = "Build" -> "Transform"
      [] stage = "Transform" -> "ExternalOptimize"
      [] stage = "ExternalOptimize" -> "Success"

StageAfter(stage, ok) ==
    IF ~ok THEN "Failed"
    ELSE CASE stage = "ResolveMetadata" -> "Build"
           [] stage = "Build" -> "Transform"
           [] stage = "Transform" -> "ExternalOptimize"
           [] stage = "ExternalOptimize" -> "Success"

NoPath == <<>>

\* execute_build's Ok value: the path the final message names.
ReportedPath(cm) == cm.dest_wasm

\* std::fs::rename
Rename(f, from, to) ==
    IF from = to THEN f ELSE [f EXCEPT ![to] = f[from], ![from] = Absent]

NoOutput == [status |-> "none", stdout |-> "", stderr |-> ""]

\* What a failing wasm-opt may have printed.
Captures ==
    {[stdout |-> "o1", stderr |-> "e1"], [stdout |-> "", stderr |-> "e2"]}

VARIABLES
    pc,             \* position in execute_build
    started,        \* the stages started so far, in order
    failedStage,    \* the stage whose error ended the run, "" if none
    failCause,      \* that error
    root_name,      \* the root package's name in cargo metadata
    crate_metadata, \* CrateMetadata, once collected
    manifests,      \* the manifest on disk (real) and using_temp's copy (temp)
    preScope,       \* the manifest on disk when build_cargo_project began
    buildCalls,     \* calls of xargo_lib::build
    buildManifest,  \* the manifest the last build read
    buildResult,    \* xbuild's result, held by using_temp
    fs,             \* the wasm files under the target directory
    fsBefore,       \* fs when the current stage began
    module,         \* post_process_wasm's module
    stripIn,        \* the module strip_custom_sections was given
    transformOut,   \* what post_process_wasm wrote
    which,          \* which::which("wasm-opt"): "unprobed", "absent", "present"
    optRuns,        \* wasm-opt processes spawned
    optArgs,        \* the arguments of the last one
    output,         \* its exit status and captured streams
    emitted,        \* what was written to stdout and stderr from them
    result          \* the path execute_build returned, NoPath if none

ctl == <<pc, started, failedStage, failCause>>

meta == <<root_name, crate_metadata>>

build == <<manifests, preScope, buildCalls, buildManifest, buildResult>>

files == <<fs, fsBefore>>

transform == <<module, stripIn, transformOut>>

wasmopt == <<which, optRuns, optArgs, output, emitted>>

vars == <<ctl, meta, build, files, transform, wasmopt, result>>

InitialFiles(cm, raw, dest, opt) ==
    [p \in Paths |->
        IF p = cm.original_wasm THEN raw
        ELSE IF p = cm.dest_wasm THEN dest
        ELSE IF p = OptimizedPath(cm) THEN opt
        ELSE Absent]

Init ==
    /\ pc = "ResolveMetadata"
    /\ started = <<>>
    /\ failedStage = ""
    /\ failCause = ""
    /\ root_name \in PackageNames
    /\ crate_metadata = NoMetadata
    /\ \E m \in ManifestContents :
        /\ manifests = [real |-> m, temp |-> NoManifest]
        /\ preScope = m
    /\ buildCalls = 0
    /\ buildManifest = NoManifest
    /\ buildResult = ""
    /\ \E dest \in {Absent, Stale}, opt \in {Absent, Stale} :
        fs = InitialFiles(collect_crate_metadata(root_name), Absent, dest, opt)
    /\ fsBefore = fs
    /\ module = <<>>
    /\ stripIn = <<>>
    /\ transformOut = Absent
    /\ which = "unprobed"
    /\ optRuns = 0
    /\ optArgs = <<>>
    /\ output = NoOutput
    /\ emitted = <<>>
    /\ result = NoPath

\* A stage (or a step of it) returns: on an error the run fails there.
Return(stage, cause) ==
    /\ pc' = StageAfter(stage, cause = "")
    /\ failedStage' = IF cause = "" THEN failedStage ELSE stage
    /\ failCause' = IF cause = "" THEN failCause ELSE cause
    /\ result' = IF pc' = "Success" THEN ReportedPath(crate_metadata) ELSE result

Step(next) ==
    /\ pc' = next
    /\ UNCHANGED <<failedStage, failCause, result>>

\* [1/4] collect_crate_metadata
ResolveMetadata ==
    /\ pc = "ResolveMetadata"
    /\ started' = Append(started, "ResolveMetadata")
    /\ \/ /\ crate_metadata' = collect_crate_metadata(root_name)
          /\ Return("ResolveMetadata", "")
       \/ /\ UNCHANGED crate_metadata
          /\ Return("ResolveMetadata", "get_cargo_metadata")
       \/ /\ UNCHANGED crate_metadata
          /\ Step("Panicked")
    /\ UNCHANGED <<root_name, build, files, transform, wasmopt>>

\* [2/4] build_cargo_project up to using_temp: check_channel, Workspace::new
\* and the manifest edits, then using_temp's temporary copy.
BuildStart ==
    /\ pc = "Build"
    /\ started' = Append(started, "Build")
    /\ fsBefore' = fs
    /\ preScope' = manifests.real
    /\ \/ /\ Return("Build", "check_channel")
          /\ UNCHANGED manifests
       \/ /\ Return("Build", "Workspace::new")
          /\ UNCHANGED manifests
       \/ LET e == EditRootManifest(manifests.real)
          IN  IF e.ok
              THEN /\ manifests' = using_temp_enter(manifests, e.manifest)
                   /\ Step("xbuild")
              ELSE /\ Return("Build", "InvalidManifest")
                   /\ UNCHANGED manifests
    /\ UNCHANGED <<meta, buildCalls, buildManifest, buildResult, fs,
                   transform, wasmopt>>

\* The xbuild closure, called by using_temp with the temporary manifest.
Xbuild ==
    /\ pc = "xbuild"
    /\ Step("restore")
    /\ \/ /\ buildResult' = "Creating xargo args"
          /\ UNCHANGED <<buildCalls, buildManifest, fs>>
       \/ /\ buildCalls' = buildCalls + 1
          /\ buildManifest' = manifests[xbuildManifest("temp", "real")]
          /\ \/ /\ buildResult' \in {"Building with xbuild", "xbuild failed"}
                /\ UNCHANGED fs
             \/ /\ buildResult' = ""
                /\ \E raw \in {fs[crate_metadata.original_wasm], Garbage}
                          \cup {Wasm(m) : m \in PipelineModules} :
                    fs' = [fs EXCEPT ![crate_metadata.original_wasm] = raw]
    /\ UNCHANGED <<started, meta, manifests, preScope, fsBefore, transform,
                   wasmopt>>

\* using_temp returns the closure's result after restoring the manifest.
UsingTempExit ==
    /\ pc = "restore"
    /\ \E cleanupOk \in BOOLEAN :
        /\ manifests' = using_temp_exit(manifests, preScope, cleanupOk)
        /\ Return("Build",
                  IF buildResult # "" THEN buildResult
                  ELSE IF cleanupOk THEN "" ELSE "restoring the manifest")
    /\ UNCHANGED <<started, meta, preScope, buildCalls, buildManifest,
                   buildResult, files, transform, wasmopt>>

\* [3/4] post_process_wasm: parity_wasm::deserialize_file(original_wasm)?
LoadOriginal ==
    /\ pc = "Transform"
    /\ started' = Append(started, "Transform")
    /\ fsBefore' = fs
    /\ LET raw == fs[crate_metadata.original_wasm]
       IN  IF raw.tag = "wasm"
           THEN /\ module' = raw.sections
                /\ Step("optimize")
           ELSE /\ UNCHANGED module
                /\ Return("Transform", "Loading original wasm file")
    /\ UNCHANGED <<meta, build, fs, stripIn, transformOut, wasmopt>>

\* Optimize with the module written out before the error is returned.
OptimizeWritingOnError ==
    /\ pc = "optimize"
    /\ \/ /\ Return("Transform", "Optimizer failed")
          /\ fs' = [fs EXCEPT ![crate_metadata.dest_wasm] = Wasm(module)]
          /\ UNCHANGED module
       \/ /\ module' \in PipelineModules
          /\ Step("strip")
          /\ UNCHANGED fs
    /\ UNCHANGED <<started, meta, build, fsBefore, stripIn, transformOut,
                   wasmopt>>

\* pwasm_utils::optimize(&mut module, ["call", "deploy"]): an error, or the
\* module rewritten in place (any module: the library is not part of the
\* repository).
Optimize ==
    /\ pc = "optimize"
    /\ \/ /\ Return("Transform", "Optimizer failed")
          /\ UNCHANGED module
       \/ /\ module' \in PipelineModules
          /\ Step("strip")
    /\ UNCHANGED <<started, meta, build, files, stripIn, transformOut,
                   wasmopt>>

\* strip_custom_sections(&mut module)
Strip ==
    /\ pc = "strip"
    /\ stripIn' = module
    /\ module' = strip_custom_sections(module)
    /\ Step("serialize")
    /\ UNCHANGED <<started, meta, build, files, transformOut, wasmopt>>

\* parity_wasm::serialize_to_file(dest_wasm, module)?
Serialize ==
    /\ pc = "serialize"
    /\ module' = <<>>
    /\ stripIn' = <<>>
    /\ \/ /\ fs' = [fs EXCEPT ![crate_metadata.dest_wasm] = Wasm(module)]
          /\ transformOut' = Wasm(module)
          /\ Return("Transform", "")
       \/ /\ \E left \in {fs[crate_metadata.dest_wasm], Partial} :
                fs' = [fs EXCEPT ![crate_metadata.dest_wasm] = left]
          /\ UNCHANGED transformOut
          /\ Return("Transform", "serialize_to_file")
    /\ UNCHANGED <<started, meta, build, fsBefore, wasmopt>>

\* ProbeWasmOpt without the early return.
ProbeWasmOptNoReturn ==
    /\ pc = "ExternalOptimize"
    /\ started' = Append(started, "ExternalOptimize")
    /\ fsBefore' = fs
    /\ which' \in {"absent", "present"}
    /\ Step("wasm-opt")
    /\ UNCHANGED <<meta, build, fs, transform, optRuns, optArgs, output,
                   emitted>>

\* [4/4] optimize_wasm: which::which("wasm-opt"), Ok(()) when it is missing
ProbeWasmOpt ==
    /\ pc = "ExternalOptimize"
    /\ started' = Append(started, "ExternalOptimize")
    /\ fsBefore' = fs
    /\ \/ /\ which' = "absent"
          /\ Return("ExternalOptimize", "")
       \/ /\ which' = "present"
          /\ Step("wasm-opt")
    /\ UNCHANGED <<meta, build, fs, transform, optRuns, optArgs, output,
                   emitted>>

\* RunWasmOpt without the status check.
RunWasmOptIgnoringStatus ==
    /\ pc = "wasm-opt"
    /\ optRuns' = optRuns + 1
    /\ optArgs' = <<crate_metadata.dest_wasm, "-O3", "-o",
                    OptimizedPath(crate_metadata)>>
    /\ \/ /\ Return("ExternalOptimize", "Command::output")
          /\ UNCHANGED <<fs, output, emitted>>
       \/ /\ output' = [status |-> "zero", stdout |-> "", stderr |-> ""]
          /\ fs' = [fs EXCEPT ![optArgs'[4]] = WasmOptOutput(fs[optArgs'[1]])]
          /\ Step("rename")
          /\ UNCHANGED emitted
       \/ /\ \E c \in Captures :
                output' = [status |-> "nonzero", stdout |-> c.stdout,
                           stderr |-> c.stderr]
          /\ \E left \in {fs[optArgs'[4]], Partial} :
                fs' = [fs EXCEPT ![optArgs'[4]] = left]
          /\ Step("rename")
          /\ UNCHANGED emitted
    /\ UNCHANGED <<started, meta, build, fsBefore, transform, which>>

\* Command::new("wasm-opt") dest -O3 -o optimized, and the status check.
\* wasm-opt reads its first argument and writes the file named after -o; a
\* failing run may leave a partial output file.  The two write_all calls to
\* the console are taken to succeed, like the println! calls around them.
RunWasmOpt ==
    /\ pc = "wasm-opt"
    /\ optRuns' = optRuns + 1
    /\ optArgs' = <<crate_metadata.dest_wasm, "-O3", "-o",
                    OptimizedPath(crate_metadata)>>
    /\ \/ /\ Return("ExternalOptimize", "Command::output")
          /\ UNCHANGED <<fs, output, emitted>>
       \/ /\ output' = [status |-> "zero", stdout |-> "", stderr |-> ""]
          /\ fs' = [fs EXCEPT ![optArgs'[4]] = WasmOptOutput(fs[optArgs'[1]])]
          /\ Step("rename")
          /\ UNCHANGED emitted
       \/ /\ \E c \in Captures :
                output' = [status |-> "nonzero", stdout |-> c.stdout,
                           stderr |-> c.stderr]
          /\ \E left \in {fs[optArgs'[4]], Partial} :
                fs' = [fs EXCEPT ![optArgs'[4]] = left]
          /\ emitted' = <<output'.stdout, output'.stderr>>
          /\ Return("ExternalOptimize", "wasm-opt optimization failed")
    /\ UNCHANGED <<started, meta, build, fsBefore, transform, which>>

\* The two metadata calls, then rename(optimized, dest_wasm)
ReplaceDest ==
    /\ pc = "rename"
    /\ \/ /\ Return("ExternalOptimize", "metadata")
          /\ UNCHANGED fs
       \/ /\ Return("ExternalOptimize", "rename")
          /\ UNCHANGED fs
       \/ /\ fs' = Rename(fs, OptimizedPath(crate_metadata),
                          crate_metadata.dest_wasm)
          /\ Return("ExternalOptimize", "")
    /\ UNCHANGED <<started, meta, build, fsBefore, transform, wasmopt>>

Next ==
    \/ ResolveMetadata
    \/ BuildStart
    \/ Xbuild
    \/ UsingTempExit
    \/ LoadOriginal
    \/ Optimize
    \/ Strip
    \/ Serialize
    \/ ProbeWasmOpt
    \/ RunWasmOpt
    \/ ReplaceDest

Spec == Init /\ [][Next]_vars

\* strip_custom_sections on its own: any module as the input.
InitStrip ==
    /\ pc = "strip"
    /\ started = <<>>
    /\ failedStage = ""
    /\ failCause = ""
    /\ root_name = <<"a">>
    /\ crate_metadata = NoMetadata
    /\ manifests = [real |-> Malformed, temp |-> NoManifest]
    /\ preScope = Malformed
    /\ buildCalls = 0
    /\ buildManifest = NoManifest
    /\ buildResult = ""
    /\ fs = [p \in Paths |-> Absent]
    /\ fsBefore = fs
    /\ module \in Modules
    /\ stripIn = <<>>
    /\ transformOut = Absent
    /\ which = "unprobed"
    /\ optRuns = 0
    /\ optArgs = <<>>
    /\ output = NoOutput
    /\ emitted = <<>>
    /\ result = NoPath

SpecStrip == InitStrip /\ [][Strip]_vars

\* ------------------------------------------------------------------ claims

IsPrefix(s, t) == Len(s) <= Len(t) /\ \A i \in 1..Len(s) : s[i] = t[i]

\* C1: the stages start in the order ResolveMetadata, Build, Transform,
\* ExternalOptimize, each at most once (the build function and wasm-opt are
\* called at most once); once a stage has returned an error the run is
\* Failed at that stage, which is the last stage ever started.
C1_StagesInOrderAndFailFast ==
    /\ IsPrefix(started, StageOrder)
    /\ buildCalls <= 1
    /\ optRuns <= 1
    /\ (pc = "Failed") = (failedStage # "")
    /\ failedStage # "" =>
        /\ started # <<>>
        /\ started[Len(started)] = failedStage
        /\ result = NoPath
    /\ pc = "Success" => started = StageOrder

C1_Witness ==
    /\ pc = "Failed"
    /\ failedStage = "Build"
    /\ buildCalls = 1
    /\ started = <<"ResolveMetadata", "Build">>

\* using_temp has been entered (the manifest edits applied).
UsingTempEntered ==
    /\ Len(started) >= 2
    /\ ~(failedStage = "Build"
         /\ failCause \in {"check_channel", "Workspace::new",
                           "InvalidManifest"})

UsingTempReturned == UsingTempEntered /\ pc \notin {"xbuild", "restore"}

\* C2: once using_temp has returned, after a successful or a failed build,
\* the manifest on disk is what it was before; it is never anything else
\* while the scope is open, and the build read the edited copy (no rlib
\* crate type, release LTO on).
C2_ManifestRestored ==
    /\ UsingTempReturned => manifests.real = preScope
    /\ UsingTempEntered => manifests.real = preScope
    /\ buildCalls > 0 =>
        /\ "rlib" \notin buildManifest.crate_types
        /\ buildManifest.lto
        /\ buildManifest.crate_types = preScope.crate_types \ {"rlib"}

C2_Witness ==
    /\ UsingTempReturned
    /\ buildResult = "xbuild failed"
    /\ preScope = Toml({"cdylib", "rlib"}, FALSE)
    /\ buildManifest = Toml({"cdylib"}, TRUE)
    /\ manifests.real = preScope

\* C3: with wasm-opt missing, optimize_wasm returns Ok: no process was
\* spawned, no file differs from what it was when the stage began, the run
\* is a Success and the destination holds what Transform wrote.
C3_MissingWasmOptIsSkipped ==
    which = "absent" =>
        /\ pc = "Success"
        /\ optRuns = 0
        /\ fs = fsBefore
        /\ fs[crate_metadata.dest_wasm] = transformOut
        /\ transformOut.tag = "wasm"
        /\ result = crate_metadata.dest_wasm

C3_Witness ==
    /\ which = "absent"
    /\ pc = "Success"
    /\ fs[OptimizedPath(crate_metadata)] = Stale
    /\ fs[crate_metadata.dest_wasm] = Wasm(<<[kind |-> "Code", payload |-> "p"]>>)

\* C4: when Transform fails because the raw artifact does not load, or
\* because the optimizer returns an error, the destination (and every other
\* file) is as it was when the stage began.
C4_FailedTransformLeavesDest ==
    (failedStage = "Transform"
     /\ failCause \in {"Loading original wasm file", "Optimizer failed"}) =>
        /\ fs[crate_metadata.dest_wasm] = fsBefore[crate_metadata.dest_wasm]
        /\ fs = fsBefore

C4_Witness ==
    /\ failedStage = "Transform"
    /\ failCause = "Optimizer failed"
    /\ fs[crate_metadata.dest_wasm] = Stale

\* The indices of m whose section is not metadata.
SemanticIndices(m) == {j \in 1..Len(m) : m[j].kind \notin MetaKinds}

\* C7: strip_custom_sections leaves no Custom, Name or Reloc section, and
\* the result is exactly the other sections of the input, each unchanged, in
\* their original order.
C7_StripIsFilter ==
    pc = "serialize" =>
        /\ \A i \in 1..Len(module) : module[i].kind \notin MetaKinds
        /\ Len(module) = Cardinality(SemanticIndices(stripIn))
        /\ \A j \in SemanticIndices(stripIn) :
            module[Cardinality({k \in SemanticIndices(stripIn) : k <= j})]
                = stripIn[j]

C7_Witness ==
    /\ pc = "serialize"
    /\ Len(stripIn) = 2
    /\ stripIn[1].kind = "Reloc"
    /\ stripIn[2] = [kind |-> "Code", payload |-> "q"]
    /\ module = <<stripIn[2]>>

EditsFail(m) ==
    \/ ~with_removed_crate_type(m, "rlib").ok
    \/ ~with_profile_release_lto(
            with_removed_crate_type(m, "rlib").manifest, TRUE).ok

\* build_cargo_project got as far as the edits.
EditsAttempted ==
    /\ Len(started) >= 2
    /\ failCause \notin {"check_channel", "Workspace::new"}

\* C9: when applying the manifest edits fails, the run is Failed at Build
\* with the manifest error, the build function was never called, and the
\* manifest on disk is untouched with no temporary copy written.
C9_InvalidManifestFailsBeforeBuild ==
    (EditsAttempted /\ EditsFail(preScope)) =>
        /\ pc = "Failed"
        /\ failedStage = "Build"
        /\ failCause = "InvalidManifest"
        /\ buildCalls = 0
        /\ manifests = [real |-> preScope, temp |-> NoManifest]
        /\ fs = fsBefore

C9_Witness ==
    /\ failCause = "InvalidManifest"
    /\ preScope = Malformed
    /\ buildCalls = 0

\* C10: with wasm-opt present, it is called as wasm-opt <dest> -O3 -o
\* <target dir>/<package>-opt.wasm, a file other than the destination; at
\* Success it had exited zero, the destination holds its output for what
\* Transform wrote, the -opt file is gone and the reported path is the
\* destination; until then the destination still holds what Transform wrote.
C10_WasmOptOutputReplacesDest ==
    which = "present" =>
        /\ optRuns > 0 =>
            /\ optArgs =
                <<crate_metadata.dest_wasm, "-O3", "-o",
                  Push(target_directory,
                       crate_metadata.package_name
                           \o <<"-", "opt", ".", "wasm">>)>>
            /\ optArgs[4] # crate_metadata.dest_wasm
        /\ pc = "Success" =>
            /\ output.status = "zero"
            /\ fs[crate_metadata.dest_wasm] = WasmOptOutput(transformOut)
            /\ fs[optArgs[4]] = Absent
            /\ result = crate_metadata.dest_wasm
        /\ pc # "Success" => fs[crate_metadata.dest_wasm] = transformOut

C10_Witness ==
    /\ which = "present"
    /\ pc = "Success"
    /\ fsBefore[OptimizedPath(crate_metadata)] = Stale
    /\ root_name = <<"a", "-", "b">>
    /\ fs[crate_metadata.dest_wasm].tag = "wasm-opt"

====
